---- MODULE Spec2Model ----
(***************************************************************************)
(* Model of src/api/x11/xdisplay.rs: XConnection::new (the establish       *)
(* operation), impl Drop for XConnection, and the XNotSupported error.     *)
(*                                                                         *)
(* pc is the source line the running XConnection::new call executes next;  *)
(* every native call (a library open, XInitThreads, XSetErrorHandler,      *)
(* dlopen, load_with, XOpenDisplay, XCloseDisplay) is one step, and what   *)
(* the native call returns is chosen by the environment.                   *)
(***************************************************************************)
EXTENDS Integers, Sequences, FiniteSets, TLC

\* ---- bounds ----
MaxCalls == 2          \* number of XConnection::new calls in one run
MaxClose == 2          \* cap on XCloseDisplay calls per handle (forced drops)

\* ---- values of the program ----
NULL == 0              \* ptr::null(): a display handle is NULL or 1, 2, ...

Handlers == {"None", "cb1"}                 \* XErrorHandler values

Mandatory == <<"Xlib", "Xcursor", "Xf86vmode", "XInput2">>
MandatoryPc == <<"L31", "L32", "L33", "L34">>
OpenErrorKinds == {"Library", "Symbol"}     \* ffi::OpenError kinds

GlxNames == <<"libGL.so.1", "libGL.so">>
EglNames == <<"libEGL.so.1", "libEGL.so">>
GlxSyms == <<"glXCreateContext", "glXSwapBuffers">>
EglSyms == <<"eglGetDisplay", "eglSwapBuffers">>

Range(s) == {s[i] : i \in 1..Len(s)}

VARIABLES
  pc,             \* line of XConnection::new to execute next / idle / returned
  error_handler,  \* argument of the running call
  libs,           \* xlib, xcursor, xf86vmode, xinput2: "unset" or "loaded"
  libglx, glx,    \* locals of lines 40-54
  libegl, egl,    \* locals of lines 57-71
  calls,          \* native calls made by the running call, in order
  result,         \* value returned by the call
  conns,          \* XConnection values that exist
  dropped,        \* display handles of XConnection values already dropped
  closeCount,     \* XCloseDisplay calls per display handle
  nextDisplay,    \* next handle the display server hands out
  handlerSlot,    \* Xlib's process-wide error handler
  threadsInited,  \* XInitThreads has run in this process
  closedLibs,     \* library handles of this process passed to dlclose
  nCalls          \* XConnection::new calls started

vars == <<pc, error_handler, libs, libglx, glx, libegl, egl, calls, result,
          conns, dropped, closeCount, nextDisplay, handlerSlot,
          threadsInited, closedLibs, nCalls>>

local == <<error_handler, libs, libglx, glx, libegl, egl>>
process == <<conns, dropped, closeCount, nextDisplay, handlerSlot, threadsInited,
             closedLibs>>

\* ---- values ----
None == [some |-> FALSE, loaded |-> {}]
Some(b) == [some |-> TRUE, loaded |-> b]

NoResult == [tag |-> "none", err |-> "none", cause |-> "none", detail |-> "none", display |-> NULL]
Ok(c) == [tag |-> "Ok", err |-> "none", cause |-> "none", detail |-> "none", display |-> c.display]
Err(e) == [tag |-> "Err", err |-> e.variant, cause |-> e.kind, detail |-> e.detail, display |-> NULL]

OpenError(k, d) == [kind |-> k, detail |-> d]
XOpenDisplayFailed == [variant |-> "XOpenDisplayFailed", kind |-> "none", detail |-> "none"]
LibraryOpenError(err) == [variant |-> "LibraryOpenError", kind |-> err.kind, detail |-> err.detail]

\* From that keeps only that a library failed, not which error it was
FromLossy(err) == LibraryOpenError(OpenError("Library", "unknown"))

\* impl From<ffi::OpenError> for XNotSupported
From(err) == LibraryOpenError(err)

\* XNotSupported::cause
cause(e) == IF e.variant = "LibraryOpenError" THEN Some(OpenError(e.kind, e.detail)) ELSE None

\* one native call of the running XConnection::new: function, library handle
\* it is made on (dlsym only), argument, returned value
Call(f, a, r) == [fn |-> f, lib |-> "", arg |-> a, ret |-> r]

\* Glx::load_with / Egl::load_with: one dlsym per symbol of the bundle, in
\* order; the bundle keeps every entry, loaded or not.
DlsymCalls(lib, syms, resolved) ==
  [i \in 1..Len(syms) |->
     [fn |-> "dlsym", lib |-> lib, arg |-> syms[i],
      ret |-> IF syms[i] \in resolved THEN "ptr" ELSE "NULL"]]

load_with(syms, resolved) == {s \in Range(syms) : s \in resolved}

XConnection(d) ==
  [xlib |-> libs["Xlib"], xf86vmode |-> libs["Xf86vmode"],
   xcursor |-> libs["Xcursor"], xinput2 |-> libs["XInput2"],
   glx |-> glx, egl |-> egl, display |-> d]

\* ---- the state machine of section 4.2, read off pc ----
State ==
  CASE pc \in {"L31", "L32", "L33", "L34"} -> "Start"
    [] pc = "L36" -> "MandatoryLoaded"
    [] pc = "L37" -> "ThreadsInited"
    [] pc \in {"L41", "L43", "L49", "L58", "L60", "L66"} -> "ErrorHandlerInstalled"
    [] pc = "L75" -> "OptionalProbed"
    [] pc = "ret_ok" -> "Connected"
    [] pc = "ret_err" -> "Failed"
    [] OTHER -> "Idle"

Init ==
  /\ pc = "idle"
  /\ error_handler = "None"
  /\ libs = [n \in Range(Mandatory) |-> "unset"]
  /\ libglx = "NULL" /\ glx = None
  /\ libegl = "NULL" /\ egl = None
  /\ calls = <<>>
  /\ result = NoResult
  /\ conns = {}
  /\ dropped = {}
  /\ closeCount = [d \in 1..MaxCalls |-> 0]
  /\ nextDisplay = 1
  /\ handlerSlot = "None"
  /\ threadsInited = FALSE
  /\ closedLibs = {}
  /\ nCalls = 0

\* A caller invokes XConnection::new(h); no other call is running.
New(h) ==
  /\ pc \in {"idle", "ret_ok", "ret_err"}
  /\ nCalls < MaxCalls
  /\ nCalls' = nCalls + 1
  /\ pc' = "L31"
  /\ error_handler' = h
  /\ libs' = [n \in Range(Mandatory) |-> "unset"]
  /\ libglx' = "NULL" /\ glx' = None
  /\ libegl' = "NULL" /\ egl' = None
  /\ calls' = <<>>
  /\ result' = NoResult
  /\ UNCHANGED process

\* Open without try!: a failed open does not return
OpenNoTry(i) ==
  /\ pc = MandatoryPc[i]
  /\ \E r \in {"ok"} \cup OpenErrorKinds :
       /\ calls' = Append(calls, Call("open", Mandatory[i], r))
       /\ libs' = [libs EXCEPT ![Mandatory[i]] = "loaded"]
       /\ pc' = IF i < Len(Mandatory) THEN MandatoryPc[i + 1] ELSE "L36"
       /\ UNCHANGED result
  /\ UNCHANGED <<error_handler, libglx, glx, libegl, egl, nCalls>>
  /\ UNCHANGED process

\* lines 31-34: let x = try!(ffi::X::open());
Open(i) ==
  /\ pc = MandatoryPc[i]
  /\ \E r \in {"ok"} \cup OpenErrorKinds :
       /\ calls' = Append(calls, Call("open", Mandatory[i], r))
       /\ IF r = "ok"
            THEN /\ libs' = [libs EXCEPT ![Mandatory[i]] = "loaded"]
                 /\ pc' = IF i < Len(Mandatory) THEN MandatoryPc[i + 1] ELSE "L36"
                 /\ UNCHANGED result
            ELSE /\ result' = Err(From(OpenError(r, Mandatory[i])))
                 /\ pc' = "ret_err"
                 /\ UNCHANGED libs
  /\ UNCHANGED <<error_handler, libglx, glx, libegl, egl, nCalls>>
  /\ UNCHANGED process

\* XInitThreads left out
XInitThreadsSkipped ==
  /\ pc = "L36"
  /\ pc' = "L37"
  /\ UNCHANGED <<local, calls, result, nCalls, process>>

\* XInitThreads with its status tested: a zero status returns an error
XInitThreadsChecked ==
  /\ pc = "L36"
  /\ calls' = Append(calls, Call("XInitThreads", "", ""))
  /\ threadsInited' = TRUE
  /\ \E status \in {0, 1} :
       IF status = 0
         THEN pc' = "ret_err" /\ result' = Err(XOpenDisplayFailed)
         ELSE pc' = "L37" /\ result' = result
  /\ UNCHANGED <<local, nCalls, conns, dropped, closeCount, nextDisplay, handlerSlot, closedLibs>>

\* XInitThreads called again before line 37
XInitThreadsTwice ==
  /\ pc = "L36"
  /\ calls' = calls \o <<Call("XInitThreads", "", ""), Call("XInitThreads", "", "")>>
  /\ threadsInited' = TRUE
  /\ pc' = "L37"
  /\ UNCHANGED <<local, result, nCalls, conns, dropped, closeCount, nextDisplay, handlerSlot, closedLibs>>

\* line 36: unsafe { (xlib.XInitThreads)() };
XInitThreads ==
  /\ pc = "L36"
  /\ calls' = Append(calls, Call("XInitThreads", "", ""))
  /\ threadsInited' = TRUE
  /\ pc' = "L37"
  /\ UNCHANGED <<local, result, nCalls, conns, dropped, closeCount, nextDisplay, handlerSlot, closedLibs>>

\* XSetErrorHandler called only for a Some handler
XSetErrorHandlerSomeOnly ==
  /\ pc = "L37"
  /\ IF error_handler = "None"
       THEN UNCHANGED <<calls, handlerSlot>>
       ELSE /\ calls' = Append(calls, Call("XSetErrorHandler", error_handler, ""))
            /\ handlerSlot' = error_handler
  /\ pc' = "L41"
  /\ UNCHANGED <<local, result, nCalls, conns, dropped, closeCount, nextDisplay, threadsInited, closedLibs>>

\* line 37: unsafe { (xlib.XSetErrorHandler)(error_handler) };
XSetErrorHandler ==
  /\ pc = "L37"
  /\ calls' = Append(calls, Call("XSetErrorHandler", error_handler, ""))
  /\ handlerSlot' = error_handler
  /\ pc' = "L41"
  /\ UNCHANGED <<local, result, nCalls, conns, dropped, closeCount, nextDisplay, threadsInited, closedLibs>>

\* the first libGL candidate without the is_null test of line 42
GlxDlopen1NoTest ==
  /\ pc = "L41"
  /\ \E r \in {"NULL", GlxNames[1]} :
       /\ calls' = Append(calls, Call("dlopen", GlxNames[1], r))
       /\ libglx' = r
       /\ pc' = "L43"
  /\ UNCHANGED <<error_handler, libs, glx, libegl, egl, result, nCalls>>
  /\ UNCHANGED process

\* lines 41-42: dlopen("libGL.so.1"), then the null test
GlxDlopen1 ==
  /\ pc = "L41"
  /\ \E r \in {"NULL", GlxNames[1]} :
       /\ calls' = Append(calls, Call("dlopen", GlxNames[1], r))
       /\ libglx' = r
       /\ pc' = IF r = "NULL" THEN "L43" ELSE "L49"
  /\ UNCHANGED <<error_handler, libs, glx, libegl, egl, result, nCalls>>
  /\ UNCHANGED process

\* the second libGL candidate treated as mandatory: null fails the call
GlxDlopen2Fatal ==
  /\ pc = "L43"
  /\ \E r \in {"NULL", GlxNames[2]} :
       /\ calls' = Append(calls, Call("dlopen", GlxNames[2], r))
       /\ libglx' = r
       /\ IF r = "NULL"
            THEN /\ pc' = "ret_err"
                 /\ result' = Err(From(OpenError("Library", GlxNames[2])))
            ELSE /\ pc' = "L49"
                 /\ result' = result
  /\ UNCHANGED <<error_handler, libs, glx, libegl, egl, nCalls>>
  /\ UNCHANGED process

\* lines 43-47: dlopen("libGL.so"), then the null test; None when null
GlxDlopen2 ==
  /\ pc = "L43"
  /\ \E r \in {"NULL", GlxNames[2]} :
       /\ calls' = Append(calls, Call("dlopen", GlxNames[2], r))
       /\ libglx' = r
       /\ IF r = "NULL"
            THEN glx' = None /\ pc' = "L58"
            ELSE glx' = glx /\ pc' = "L49"
  /\ UNCHANGED <<error_handler, libs, libegl, egl, result, nCalls>>
  /\ UNCHANGED process

\* lines 49-52: Some(ffi::glx::Glx::load_with(|sym| dlsym(libglx, sym)))
GlxLoad ==
  /\ pc = "L49"
  /\ \E resolved \in SUBSET Range(GlxSyms) :
       /\ calls' = calls \o DlsymCalls(libglx, GlxSyms, resolved)
       /\ glx' = Some(load_with(GlxSyms, resolved))
  /\ pc' = "L58"
  /\ UNCHANGED <<error_handler, libs, libglx, libegl, egl, result, nCalls>>
  /\ UNCHANGED process

\* lines 58-59: dlopen("libEGL.so.1"), then the null test
EglDlopen1 ==
  /\ pc = "L58"
  /\ \E r \in {"NULL", EglNames[1]} :
       /\ calls' = Append(calls, Call("dlopen", EglNames[1], r))
       /\ libegl' = r
       /\ pc' = IF r = "NULL" THEN "L60" ELSE "L66"
  /\ UNCHANGED <<error_handler, libs, libglx, glx, egl, result, nCalls>>
  /\ UNCHANGED process

\* the libEGL candidates tried again from the first while none opens
EglDlopen2Retry ==
  /\ pc = "L60"
  /\ \E r \in {"NULL", EglNames[2]} :
       /\ libegl' = r
       /\ IF r = "NULL"
            THEN /\ pc' = "L58"
                 /\ calls' = SubSeq(calls, 1, Len(calls) - 1)
            ELSE /\ pc' = "L66"
                 /\ calls' = Append(calls, Call("dlopen", EglNames[2], r))
  /\ UNCHANGED <<error_handler, libs, libglx, glx, egl, result, nCalls>>
  /\ UNCHANGED process

\* lines 60-64: dlopen("libEGL.so"), then the null test; None when null
EglDlopen2 ==
  /\ pc = "L60"
  /\ \E r \in {"NULL", EglNames[2]} :
       /\ calls' = Append(calls, Call("dlopen", EglNames[2], r))
       /\ libegl' = r
       /\ IF r = "NULL"
            THEN egl' = None /\ pc' = "L75"
            ELSE egl' = egl /\ pc' = "L66"
  /\ UNCHANGED <<error_handler, libs, libglx, glx, result, nCalls>>
  /\ UNCHANGED process

\* lines 66-69: Some(Egl::load_with(|sym| dlsym(libegl, sym)))
EglLoad ==
  /\ pc = "L66"
  /\ \E resolved \in SUBSET Range(EglSyms) :
       /\ calls' = calls \o DlsymCalls(libegl, EglSyms, resolved)
       /\ egl' = Some(load_with(EglSyms, resolved))
  /\ pc' = "L75"
  /\ UNCHANGED <<error_handler, libs, libglx, glx, libegl, result, nCalls>>
  /\ UNCHANGED process

\* XOpenDisplay without the is_null test of line 76
XOpenDisplayNoCheck ==
  /\ pc = "L75"
  /\ \E display \in {NULL, nextDisplay} :
       /\ calls' = Append(calls, Call("XOpenDisplay", "NULL",
                                      IF display = NULL THEN "NULL" ELSE "display"))
       /\ conns' = conns \cup {XConnection(display)}
       /\ result' = Ok(XConnection(display))
       /\ nextDisplay' = IF display = NULL THEN nextDisplay ELSE nextDisplay + 1
       /\ pc' = "ret_ok"
  /\ UNCHANGED <<local, nCalls, dropped, closeCount, handlerSlot, threadsInited, closedLibs>>

\* XOpenDisplay tried a second time after a first null
XOpenDisplayRetry ==
  /\ pc = "L75"
  /\ \E display \in {NULL, nextDisplay} :
       /\ calls' = Append(calls, Call("XOpenDisplay", "NULL",
                                      IF display = NULL THEN "NULL" ELSE "display"))
       /\ IF display = NULL
            THEN /\ IF \E i \in 1..Len(calls) : calls[i].fn = "XOpenDisplay"
                      THEN result' = Err(XOpenDisplayFailed) /\ pc' = "ret_err"
                      ELSE result' = result /\ pc' = "L75"
                 /\ UNCHANGED <<conns, nextDisplay>>
            ELSE /\ conns' = conns \cup {XConnection(display)}
                 /\ result' = Ok(XConnection(display))
                 /\ nextDisplay' = nextDisplay + 1
                 /\ pc' = "ret_ok"
  /\ UNCHANGED <<local, nCalls, dropped, closeCount, handlerSlot, threadsInited, closedLibs>>

\* the new XConnection kept in one shared place, replacing the one before
XOpenDisplaySingleton ==
  /\ pc = "L75"
  /\ \E display \in {NULL, nextDisplay} :
       /\ calls' = Append(calls, Call("XOpenDisplay", "NULL",
                                      IF display = NULL THEN "NULL" ELSE "display"))
       /\ IF display = NULL
            THEN /\ result' = Err(XOpenDisplayFailed)
                 /\ pc' = "ret_err"
                 /\ UNCHANGED <<conns, nextDisplay>>
            ELSE /\ conns' = {XConnection(display)}
                 /\ result' = Ok(XConnection(display))
                 /\ nextDisplay' = nextDisplay + 1
                 /\ pc' = "ret_ok"
  /\ UNCHANGED <<local, nCalls, dropped, closeCount, handlerSlot, threadsInited, closedLibs>>

\* XOpenDisplay that closes the optional libraries again when it fails
XOpenDisplayCleanup ==
  /\ pc = "L75"
  /\ \E display \in {NULL, nextDisplay} :
       /\ calls' = Append(calls, Call("XOpenDisplay", "NULL",
                                      IF display = NULL THEN "NULL" ELSE "display"))
       /\ IF display = NULL
            THEN /\ result' = Err(XOpenDisplayFailed)
                 /\ pc' = "ret_err"
                 /\ closedLibs' = closedLibs \cup ({libglx, libegl} \ {"NULL"})
                 /\ UNCHANGED <<conns, nextDisplay>>
            ELSE /\ conns' = conns \cup {XConnection(display)}
                 /\ result' = Ok(XConnection(display))
                 /\ nextDisplay' = nextDisplay + 1
                 /\ pc' = "ret_ok"
                 /\ UNCHANGED closedLibs
  /\ UNCHANGED <<local, nCalls, dropped, closeCount, handlerSlot, threadsInited>>

\* lines 74-90: XOpenDisplay(NULL); Err(XOpenDisplayFailed) when null,
\* else Ok(XConnection { .. }).  The server hands out a new handle.
XOpenDisplay ==
  /\ pc = "L75"
  /\ \E display \in {NULL, nextDisplay} :
       /\ calls' = Append(calls, Call("XOpenDisplay", "NULL",
                                      IF display = NULL THEN "NULL" ELSE "display"))
       /\ IF display = NULL
            THEN /\ result' = Err(XOpenDisplayFailed)
                 /\ pc' = "ret_err"
                 /\ UNCHANGED <<conns, nextDisplay>>
            ELSE /\ conns' = conns \cup {XConnection(display)}
                 /\ result' = Ok(XConnection(display))
                 /\ nextDisplay' = nextDisplay + 1
                 /\ pc' = "ret_ok"
  /\ UNCHANGED <<local, nCalls, dropped, closeCount, handlerSlot, threadsInited, closedLibs>>

\* drop that forgets XCloseDisplay
DropNoClose(c) ==
  /\ c \in conns
  /\ conns' = conns \ {c}
  /\ dropped' = dropped \cup {c.display}
  /\ UNCHANGED <<pc, local, calls, result, nCalls, closeCount, nextDisplay,
                 handlerSlot, threadsInited, closedLibs>>

\* lines 94-99: the owner drops the XConnection; the value is gone afterwards.
Drop(c) ==
  /\ c \in conns
  /\ closeCount' = [closeCount EXCEPT ![c.display] = @ + 1]
  /\ conns' = conns \ {c}
  /\ dropped' = dropped \cup {c.display}
  /\ UNCHANGED <<pc, local, calls, result, nCalls, nextDisplay, handlerSlot, threadsInited, closedLibs>>

\* lines 94-99 run again on a value that was already dropped
\* (ptr::drop_in_place a second time): self.display is still what it was.
DropAgain(d) ==
  /\ d \in dropped
  /\ closeCount[d] < MaxClose
  /\ closeCount' = [closeCount EXCEPT ![d] = @ + 1]
  /\ UNCHANGED <<pc, local, calls, result, nCalls, conns, dropped, nextDisplay,
                 handlerSlot, threadsInited, closedLibs>>

Step ==
  \/ \E i \in 1..Len(Mandatory) : Open(i)
  \/ XInitThreads
  \/ XSetErrorHandler
  \/ GlxDlopen1
  \/ GlxDlopen2
  \/ GlxLoad
  \/ EglDlopen1
  \/ EglDlopen2
  \/ EglLoad
  \/ XOpenDisplay

Next ==
  \/ \E h \in Handlers : New(h)
  \/ Step
  \/ \E c \in conns : Drop(c)

Spec == Init /\ [][Next]_vars

\* every native call returns: a running call always takes its next step
LiveSpec == Spec /\ WF_vars(Step)

\* the same program when a test forces drop to run twice on one value
NextForced ==
  \/ Next
  \/ \E d \in dropped : DropAgain(d)

SpecForced == Init /\ [][NextForced]_vars

TypeOK ==
  /\ pc \in {"idle", "L31", "L32", "L33", "L34", "L36", "L37", "L41", "L43", "L49",
             "L58", "L60", "L66", "L75", "ret_ok", "ret_err"}
  /\ error_handler \in Handlers
  /\ handlerSlot \in Handlers
  /\ nCalls \in 0..MaxCalls
  /\ nextDisplay \in 1..(MaxCalls + 1)
  /\ dropped \subseteq 1..MaxCalls
\* ---- reading the call log ----
Idx(f) == {i \in 1..Len(calls) : calls[i].fn = f}
Made(f, a, r) == \E i \in 1..Len(calls) : calls[i] = Call(f, a, r)
MandatoryFailed == \E i \in Idx("open") : calls[i].ret # "ok"
MandatoryLoadedBefore(j) ==
  \A n \in Range(Mandatory) : \E i \in 1..(j - 1) : calls[i] = Call("open", n, "ok")
ConnectNull == Made("XOpenDisplay", "NULL", "NULL")
ConnectNonNull == Made("XOpenDisplay", "NULL", "display")

\* C1: when a mandatory bundle fails to load, XConnection::new returns
\* LibraryOpenError and has made no XInitThreads, XSetErrorHandler, dlopen,
\* dlsym or XOpenDisplay call; XOpenDisplay is never called before all four
\* mandatory bundles have loaded.
C1_MandatoryFailureStopsNew ==
  /\ MandatoryFailed =>
       /\ pc = "ret_err"
       /\ result.tag = "Err" /\ result.err = "LibraryOpenError"
       /\ \A i \in 1..Len(calls) : calls[i].fn = "open"
  /\ \A j \in Idx("XOpenDisplay") : MandatoryLoadedBefore(j)

C1_Witness ==
  /\ pc = "ret_err" /\ MandatoryFailed
  /\ Made("open", "Xlib", "ok") /\ Made("open", "Xcursor", "ok")

\* C2: the call returns XOpenDisplayFailed exactly when XOpenDisplay returned
\* null, and then XInitThreads and XSetErrorHandler have each been called
\* exactly once in this call, both before XOpenDisplay.
C2_OpenFailedIffConnectNull ==
  /\ (result.err = "XOpenDisplayFailed") <=> ConnectNull
  /\ result.err = "XOpenDisplayFailed" =>
       /\ Cardinality(Idx("XInitThreads")) = 1
       /\ Cardinality(Idx("XSetErrorHandler")) = 1
       /\ \A i \in Idx("XInitThreads") \cup Idx("XSetErrorHandler") :
            \A j \in Idx("XOpenDisplay") : i < j

C2_Witness == pc = "ret_err" /\ result.err = "XOpenDisplayFailed" /\ ConnectNull

\* C3: every display handle returned by XOpenDisplay is closed at most once,
\* and exactly once as soon as the XConnection owning it has been dropped.
C3_ClosedOncePerHandle ==
  \A d \in 1..(nextDisplay - 1) :
    /\ closeCount[d] <= 1
    /\ d \in dropped => closeCount[d] = 1

C3_Witness ==
  /\ Cardinality(dropped) = 2
  /\ \A d \in dropped : closeCount[d] = 1

\* C4: an XConnection exists exactly for the handles that are non-null, were
\* returned by XOpenDisplay and are not closed; a step that closes a handle
\* is not a step of XConnection::new.
C4_ConnectionIffHandleOpen ==
  /\ [](\A d \in 0..MaxCalls :
          (\E c \in conns : c.display = d)
            <=> (d # NULL /\ d < nextDisplay /\ closeCount[d] = 0))
  /\ [][closeCount' # closeCount => (pc' = pc /\ calls' = calls /\ result' = result)]_vars

C4_Witness ==
  /\ pc = "ret_ok"
  /\ \E c \in conns : closeCount[c.display] = 0
  /\ \E d \in dropped : closeCount[d] = 1 /\ ~ \E c \in conns : c.display = d
\* C5: running drop a second time on an already dropped XConnection does not
\* call XCloseDisplay again on its handle.
C5_SecondDropDoesNotClose ==
  [][\A d \in dropped : closeCount'[d] = closeCount[d]]_vars

\* ---- the optional probes, read from the call log ----
AllFailed(names) == \A k \in 1..Len(names) : Made("dlopen", names[k], "NULL")
GlxDone == pc \in {"L58", "L60", "L66", "L75"} \/ Idx("XOpenDisplay") # {}
EglDone == pc = "L75" \/ Idx("XOpenDisplay") # {}
Yielded == {c \in conns : c.display = result.display}

\* C6: the outcome of the call does not depend on the GLX and EGL probes: it
\* is Ok exactly when the four mandatory bundles loaded and XOpenDisplay
\* returned non-null, and an error only after a mandatory failure or a null
\* XOpenDisplay; glx (egl) is None exactly when every libGL (libEGL) candidate
\* failed to open; libEGL is probed whatever the libGL probe gave; the
\* XConnection holds glx and egl as probed.
C6_OptionalProbesNeverFail ==
  /\ result.tag = "Ok" <=> (MandatoryLoadedBefore(Len(calls) + 1) /\ ConnectNonNull)
  /\ result.tag = "Err" => (MandatoryFailed \/ ConnectNull)
  /\ GlxDone => (glx = None <=> AllFailed(GlxNames))
  /\ EglDone => (egl = None <=> AllFailed(EglNames))
  /\ EglDone => \E i \in Idx("dlopen") : calls[i].arg = EglNames[1]
  /\ pc = "ret_ok" => \A c \in Yielded : c.glx = glx /\ c.egl = egl

C6_Witness ==
  /\ pc = "ret_ok" /\ AllFailed(GlxNames) /\ AllFailed(EglNames)
  /\ \E c \in Yielded : c.glx = None /\ c.egl = None

\* C7: an optional library that opened but lacks a required symbol is
\* recorded as None in the XConnection: no XConnection holds a bundle with
\* an unresolved entry.
C7_NoPartialBundle ==
  \A c \in conns :
    /\ c.glx.some => c.glx.loaded = Range(GlxSyms)
    /\ c.egl.some => c.egl.loaded = Range(EglSyms)

\* C8: libGL.so (libEGL.so) is opened only right after libGL.so.1
\* (libEGL.so.1) returned null, each candidate is opened at most once, and
\* the symbols are resolved in the first candidate that opened.
FirstOpened(names) ==
  IF Made("dlopen", names[1], names[1]) THEN names[1]
  ELSE IF Made("dlopen", names[2], names[2]) THEN names[2]
  ELSE "NULL"

InOrder(names, syms) ==
  /\ \A j \in Idx("dlopen") :
       calls[j].arg = names[2] => (j > 1 /\ calls[j - 1] = Call("dlopen", names[1], "NULL"))
  /\ \A k \in 1..Len(names) :
       Cardinality({i \in Idx("dlopen") : calls[i].arg = names[k]}) <= 1
  /\ \A i \in Idx("dlsym") :
       calls[i].arg \in Range(syms) => calls[i].lib = FirstOpened(names)

C8_CandidatesInOrder ==
  /\ InOrder(GlxNames, GlxSyms)
  /\ InOrder(EglNames, EglSyms)
  /\ GlxDone => libglx = FirstOpened(GlxNames)
  /\ EglDone => libegl = FirstOpened(EglNames)

C8_Witness ==
  /\ pc = "L75"
  /\ FirstOpened(GlxNames) = GlxNames[1] /\ ~ \E i \in Idx("dlopen") : calls[i].arg = GlxNames[2]
  /\ FirstOpened(EglNames) = EglNames[2]
  /\ \E i \in Idx("dlsym") : calls[i].lib = EglNames[2]

\* C9: one call moves Start -> MandatoryLoaded -> ThreadsInited ->
\* ErrorHandlerInstalled -> OptionalProbed -> Connected; Failed is entered
\* only from Start or OptionalProbed, is left only by a new call, and a call
\* in Failed has returned an error and has not made an XConnection.
Transitions ==
  {<<"Start", "MandatoryLoaded">>, <<"MandatoryLoaded", "ThreadsInited">>,
   <<"ThreadsInited", "ErrorHandlerInstalled">>,
   <<"ErrorHandlerInstalled", "OptionalProbed">>,
   <<"OptionalProbed", "Connected">>,
   <<"Start", "Failed">>, <<"OptionalProbed", "Failed">>}

NewCall == {<<"Idle", "Start">>, <<"Connected", "Start">>, <<"Failed", "Start">>}

C9_StateMachine ==
  [][/\ State' # State => <<State, State'>> \in Transitions \cup NewCall
     /\ (State = "Failed" /\ State' # "Failed") => nCalls' = nCalls + 1
     /\ State' = "Failed" =>
          /\ result'.tag = "Err"
          /\ conns' \subseteq conns
          /\ nextDisplay' = nextDisplay]_vars

C9_Witness ==
  /\ State = "Failed" /\ ConnectNull
  /\ conns # {} /\ nCalls = 2

\* C10: every call reaches Connected or Failed; entering Connected makes
\* exactly one XConnection and returns it, and an XConnection is made only
\* on entering Connected.
C10_Terminates ==
  /\ (State = "Start") ~> (State \in {"Connected", "Failed"})
  /\ [](State = "Connected" => result.tag = "Ok")
  /\ [](result.tag = "Ok" => State = "Connected")
  /\ [][/\ (State # "Connected" /\ State' = "Connected")
            => (Cardinality(conns' \ conns) = 1 /\ conns \subseteq conns'
                /\ \A c \in conns' \ conns : c.display = result'.display)
        /\ ~(conns' \subseteq conns)
            => (State = "OptionalProbed" /\ State' = "Connected")]_vars

C10_Witness ==
  /\ State = "Connected" /\ nCalls = 2
  /\ Cardinality(conns) = 2 /\ Cardinality(Yielded) = 1
\* C11: in every call that passed mandatory loading, XInitThreads is called
\* exactly once, right after the four opens and before every other native
\* call; XSetErrorHandler follows it, then the dlopen/dlsym probes, then
\* XOpenDisplay.
PassedMandatory == State \in {"ThreadsInited", "ErrorHandlerInstalled", "OptionalProbed"}
                     \/ Idx("XOpenDisplay") # {}

C11_ThreadInitFirst ==
  /\ PassedMandatory =>
       /\ Idx("XInitThreads") = {Len(Mandatory) + 1}
       /\ \A i \in 1..Len(calls) :
            calls[i].fn \in {"XSetErrorHandler", "dlopen", "dlsym", "XOpenDisplay"}
              => i > Len(Mandatory) + 1
  /\ (State \in {"ErrorHandlerInstalled", "OptionalProbed"} \/ Idx("XOpenDisplay") # {})
       => Idx("XSetErrorHandler") = {Len(Mandatory) + 2}
  /\ \A j \in Idx("XOpenDisplay") :
       /\ j = Len(calls)
       /\ \E i \in Idx("dlopen") : calls[i].arg = GlxNames[1]
       /\ \E i \in Idx("dlopen") : calls[i].arg = EglNames[1]

C11_Witness ==
  /\ pc = "ret_ok" /\ ConnectNonNull
  /\ Idx("XInitThreads") = {5} /\ Idx("XSetErrorHandler") = {6}
  /\ Idx("dlsym") # {}

\* C12: no retries: in one call each mandatory library is opened at most
\* once, each optional candidate is passed to dlopen at most once and
\* XOpenDisplay is called at most once; a failed open or a null XOpenDisplay
\* is the last native call of the call, which has then returned the error.
Failure(i) ==
  \/ calls[i].fn = "open" /\ calls[i].ret # "ok"
  \/ calls[i].fn = "XOpenDisplay" /\ calls[i].ret = "NULL"

C12_NoRetries ==
  /\ \A n \in Range(Mandatory) :
       Cardinality({i \in Idx("open") : calls[i].arg = n}) <= 1
  /\ \A n \in Range(GlxNames) \cup Range(EglNames) :
       Cardinality({i \in Idx("dlopen") : calls[i].arg = n}) <= 1
  /\ Cardinality(Idx("XOpenDisplay")) <= 1
  /\ \A i \in 1..Len(calls) :
       Failure(i) => (i = Len(calls) /\ pc = "ret_err" /\ result.tag = "Err")

C12_Witness ==
  /\ pc = "ret_err" /\ nCalls = 2
  /\ Failure(Len(calls))
  /\ Made("dlopen", GlxNames[1], "NULL") /\ Made("dlopen", GlxNames[2], "NULL")

\* C13: the error handler is one slot that every install overwrites: the
\* slot changes only at line 37, to the error_handler argument of the running
\* call (None included), and once the running call has installed its handler
\* the slot holds that argument; installing the value the slot already holds
\* leaves it as it is.
C13_HandlerSlotOverwrite ==
  /\ [](handlerSlot \in Handlers)
  /\ [](Idx("XSetErrorHandler") # {} =>
          /\ handlerSlot = error_handler
          /\ \A i \in Idx("XSetErrorHandler") : calls[i].arg = error_handler)
  /\ [][/\ handlerSlot' # handlerSlot => (pc = "L37" /\ handlerSlot' = error_handler)
        /\ (pc = "L37" /\ pc' = "L41") => handlerSlot' = error_handler]_vars

C13_Witness ==
  /\ nCalls = 2 /\ Idx("XSetErrorHandler") # {}
  /\ error_handler = "None" /\ handlerSlot = "None"
  /\ \E c \in conns : TRUE

\* C14: an XConnection that exists keeps all its field values until it is
\* dropped: a step either leaves it as it is or is its drop, which closes
\* its display handle; no step makes a second XConnection on its handle.
C14_ConnectionImmutable ==
  [][/\ \A c \in conns :
          \/ c \in conns'
          \/ /\ c.display \in dropped' \ dropped
             /\ closeCount'[c.display] = closeCount[c.display] + 1
             /\ pc' = pc
     /\ \A c \in conns' \ conns : \A b \in conns : b.display # c.display]_vars

C14_Witness ==
  /\ pc = "ret_err" /\ nCalls = 2 /\ handlerSlot = "None"
  /\ \E c \in conns : c.glx.some /\ ~c.egl.some /\ c.xlib = "loaded"

\* C15: the mandatory bundles are opened in the order Xlib, Xcursor,
\* Xf86vmode, XInput2; after the first failed open no other library is
\* opened, and the returned LibraryOpenError carries the OpenError of that
\* failed open unchanged.
Returned == [variant |-> result.err, kind |-> result.cause, detail |-> result.detail]

C15_FirstFailureReported ==
  /\ \A i \in Idx("open") : i <= Len(Mandatory) /\ calls[i].arg = Mandatory[i]
  /\ \A i \in 1..Len(calls) : i <= Len(Mandatory) => calls[i].fn = "open"
  /\ \A i \in Idx("open") :
       calls[i].ret # "ok" =>
         /\ i = Len(calls)
         /\ result.err = "LibraryOpenError"
         /\ cause(Returned) = Some(OpenError(calls[i].ret, calls[i].arg))
  /\ result.err = "LibraryOpenError" => MandatoryFailed

C15_Witness ==
  /\ result.err = "LibraryOpenError" /\ Len(calls) = 3
  /\ calls[3] = Call("open", "Xf86vmode", "Symbol")
\* C16: a call that fails with XOpenDisplayFailed leaves its own
\* error_handler in the handler slot, XInitThreads done and every optional
\* library it opened still loaded; no step ever closes a library; while the
\* call is still opening the mandatory libraries, and after it returned
\* LibraryOpenError, the handler slot and the thread-init flag are as the
\* call found them.
OpenedLibs == {calls[i].ret : i \in {j \in Idx("dlopen") : calls[j].ret # "NULL"}}

C16_FailedCallSideEffects ==
  /\ [](result.err = "XOpenDisplayFailed" =>
          /\ handlerSlot = error_handler
          /\ threadsInited
          /\ OpenedLibs = {libglx, libegl} \ {"NULL"}
          /\ OpenedLibs \cap closedLibs = {})
  /\ [][/\ closedLibs' = closedLibs
        /\ (State = "Start" /\ State' \in {"Start", "Failed"})
             => (handlerSlot' = handlerSlot /\ threadsInited' = threadsInited)]_vars

C16_Witness ==
  /\ result.err = "XOpenDisplayFailed" /\ nCalls = 1
  /\ handlerSlot = "cb1"
  /\ OpenedLibs = {GlxNames[2], EglNames[1]}
====
